---- MODULE Spec2Model ----
(***************************************************************************)
(* Model of scripts/demo.py: the demo script of the Rust + Foundry polling *)
(* system.  The script prints a banner, checks that Cargo.toml exists in   *)
(* the working directory, prints a preview of the directory tree and then  *)
(* a number of static sections.  run_command is a helper that shells out   *)
(* and prints what the child wrote.                                        *)
(*                                                                         *)
(* Text.  A printed line is a sequence of tokens and standard output is    *)
(* the sequence of the lines printed so far, one per print() call.  Path   *)
(* and file names are sequences of one-character tokens, so that           *)
(* startswith, endswith, replace, count and basename are computed on the   *)
(* characters.  The literals of the script are single tokens; their        *)
(* non-ASCII glyphs are left out of the token.                             *)
(***************************************************************************)
EXTENDS Integers, Sequences, FiniteSets, TLC

VARIABLES
    entry,      \* "main": run as a script (line 163); "run_command": the helper is called
    pc,         \* position in the running function
    fs,         \* the directory tree under the working directory
    out,        \* standard output: the lines printed so far
    stack,      \* os.walk: the directories still to scan, next one first
    visited,    \* history: the directories os.walk has yielded, in order
    skipped,    \* history: the directories whose scan failed
    spawned,    \* number of subprocess.run calls made
    cmd,        \* run_command: the cmd argument
    description,\* run_command: the description argument
    result,     \* run_command: what subprocess.run came to
    raised,     \* an exception is propagating out of the running function
    exitCode    \* the exit status of the process, NoExit while it runs

vars == <<entry, pc, fs, out, stack, visited, skipped, spawned, cmd,
          description, result, raised, exitCode>>

(***************************************************************************)
(* Bounds of the model.                                                    *)
(***************************************************************************)
MaxDirs == 2
MaxFiles == 4

(***************************************************************************)
(* Constants of the script.                                                *)
(***************************************************************************)
BannerWidth == 60
RunRuleWidth == 40
ShowFirst == 3
IndentUnit == 2

NoExit == -1
None == [kind |-> "none"]

(***************************************************************************)
(* Strings.                                                                *)
(***************************************************************************)
Repeat(c, n) == [i \in 1..n |-> c]

StartsWith(s, p) == Len(s) >= Len(p) /\ SubSeq(s, 1, Len(p)) = p

EndsWith(s, p) == Len(s) >= Len(p) /\ SubSeq(s, Len(s) - Len(p) + 1, Len(s)) = p

IsNotDot(c) == c # "."

IsSep(c) == c = "/"

\* s.replace(".", "")
RemoveDots(s) == SelectSeq(s, IsNotDot)

\* s.count(os.sep)
CountSep(s) == Len(SelectSeq(s, IsSep))

\* os.path.basename(p): what follows the last separator
Basename(p) ==
    LET seps == {i \in 1..Len(p) : p[i] = "/"}
        last == IF seps = {} THEN 0 ELSE CHOOSE i \in seps : \A j \in seps : j <= i
    IN SubSeq(p, last + 1, Len(p))

\* os.path.join(top, name), as os.walk joins a directory and an entry of it
Join(top, name) == top \o <<"/">> \o name

RECURSIVE Flatten(_)
Flatten(ss) == IF ss = <<>> THEN <<>> ELSE Head(ss) \o Flatten(Tail(ss))

(***************************************************************************)
(* The file system.  A directory is a node 0..n, 0 being the working       *)
(* directory; its files are in the order the enumeration returns them.     *)
(***************************************************************************)
CargoToml == <<"C", "a", "r", "g", "o", ".", "t", "o", "m", "l">>

DotRs == <<".", "r", "s">>
DotSol == <<".", "s", "o", "l">>
DotToml == <<".", "t", "o", "m", "l">>
DotJson == <<".", "j", "s", "o", "n">>

FilePool ==
    << <<"r", "s">>,
       CargoToml,
       <<"a", ".", "r", "s">>,
       <<"b", ".", "s", "o", "l">>,
       <<"c", ".", "j", "s", "o", "n">>,
       <<".", "h", ".", "j", "s", "o", "n">> >>

DirNames ==
    << <<"s", "r", "c">>,
       <<".", "g", "i", "t">>,
       <<"a", ".", "b">>,
       <<"l", "i", "b">> >>

\* n consecutive names of the pool, starting after the r-th
Listing(r, n) == [i \in 1..n |-> FilePool[((r + i - 1) % Len(FilePool)) + 1]]

Nodes == DOMAIN fs

\* the subdirectories of p, in enumeration order
Kids(p) ==
    LET IsKid(i) == i # 0 /\ fs[i].parent = p
    IN SelectSeq([i \in 1..Cardinality(Nodes) |-> i - 1], IsKid)

\* os.path.exists(name) in the working directory
Exists(name) == \E i \in 1..Len(fs[0].files) : fs[0].files[i] = name

\* the tree of n subdirectories with parents par, whose directory d lists
\* len[d] names of the pool, and whose directory bad (if any) cannot be scanned
Tree(n, r, par, len, bad) ==
    [d \in 0..n |->
        [name     |-> IF d = 0 THEN <<".">> ELSE DirNames[((d - 1) % Len(DirNames)) + 1],
         parent   |-> IF d = 0 THEN 0 ELSE par[d],
         files    |-> Listing(r + d, len[d]),
         readable |-> d # bad]]

\* a subdirectory lies in the working directory or in the subdirectory before it
Parents(n) == {par \in [1..n -> 0..n] : \A d \in 1..n : par[d] \in {0, d - 1}}

\* how many names a directory may list
Lengths == 0..MaxFiles

\* fs is one of the trees of the model
IsTree ==
    \E n \in 0..MaxDirs :
        \E r \in 0..(Len(FilePool) - 1), par \in Parents(n),
           len \in [0..n -> Lengths], bad \in (0 - 1)..n :
            fs = Tree(n, r, par, len, bad)

EmptyFS == [d \in {0} |-> [name |-> <<".">>, parent |-> 0, files |-> <<>>, readable |-> TRUE]]

(***************************************************************************)
(* print_banner (lines 21-25)                                              *)
(***************************************************************************)
BannerLines ==
    << Repeat("=", BannerWidth),
       <<"RUST + FOUNDRY POLLING SYSTEM DEMO">>,
       Repeat("=", BannerWidth),
       <<>> >>

PrintBanner ==
    /\ entry = "main"
    /\ pc = "start"
    /\ out' = out \o BannerLines
    /\ pc' = "check"
    /\ UNCHANGED <<entry, fs, stack, visited, skipped, spawned, cmd, description,
                   result, raised, exitCode>>

(***************************************************************************)
(* main: the precondition (lines 47-49)                                    *)
(***************************************************************************)
MissingLine == <<"Please run this script from the project root directory!">>

\* MarkerMissing without the return of line 49
MarkerMissing_FallsThrough ==
    /\ entry = "main"
    /\ pc = "check"
    /\ ~Exists(CargoToml)
    /\ out' = Append(out, MissingLine)
    /\ stack' = << [path |-> <<".">>, node |-> 0] >>
    /\ pc' = "walk"
    /\ UNCHANGED <<entry, fs, visited, skipped, spawned, cmd, description,
                   result, raised, exitCode>>

\* MarkerMissing ending in sys.exit(1) instead of return
MarkerMissing_SysExit ==
    /\ entry = "main"
    /\ pc = "check"
    /\ ~Exists(CargoToml)
    /\ out' = Append(out, MissingLine)
    /\ raised' = TRUE
    /\ pc' = "return"
    /\ UNCHANGED <<entry, fs, stack, visited, skipped, spawned, cmd, description,
                   result, exitCode>>

MarkerMissing ==
    /\ entry = "main"
    /\ pc = "check"
    /\ ~Exists(CargoToml)
    /\ out' = Append(out, MissingLine)
    /\ pc' = "return"
    /\ UNCHANGED <<entry, fs, stack, visited, skipped, spawned, cmd, description,
                   result, raised, exitCode>>

(***************************************************************************)
(* main: the heading of the analysis and the start of os.walk(".")         *)
(* (lines 47, 51-56)                                                       *)
(***************************************************************************)
AnalysisLines ==
    << <<"PROJECT ANALYSIS">>,
       Repeat("-", 20),
       <<"Project Structure:">> >>

AnalysisHeader ==
    /\ entry = "main"
    /\ pc = "check"
    /\ Exists(CargoToml)
    /\ out' = out \o AnalysisLines
    /\ stack' = << [path |-> <<".">>, node |-> 0] >>
    /\ pc' = "walk"
    /\ UNCHANGED <<entry, fs, visited, skipped, spawned, cmd, description,
                   result, raised, exitCode>>

(***************************************************************************)
(* main: the body of the loop over os.walk(".") (lines 56-63)              *)
(***************************************************************************)
\* Shown without the test for a leading dot
Shown_HiddenToo(file) ==
    \/ EndsWith(file, DotRs)
    \/ EndsWith(file, DotSol)
    \/ EndsWith(file, DotToml)
    \/ EndsWith(file, DotJson)

\* line 62: the test a file must pass to be printed
Shown(file) ==
    /\ ~StartsWith(file, <<".">>)
    /\ \/ EndsWith(file, DotRs)
       \/ EndsWith(file, DotSol)
       \/ EndsWith(file, DotToml)
       \/ EndsWith(file, DotJson)

\* Level as the number of components of root
Level_Components(root) == CountSep(root) + 1

\* line 57
Level(root) == CountSep(RemoveDots(root))

\* line 61: files[:3]
FirstFiles(files) == SubSeq(files, 1, IF Len(files) < ShowFirst THEN Len(files) ELSE ShowFirst)

\* lines 57-63: what one iteration prints for (root, dirs, files)
TreeBlock(root, files) ==
    LET level == Level(root)
        indent == Repeat(" ", IndentUnit * level)
        subindent == Repeat(" ", IndentUnit * (level + 1))
        shown == SelectSeq(FirstFiles(files), Shown)
    IN << indent \o Basename(root) \o <<"/">> >>
       \o [i \in 1..Len(shown) |-> subindent \o shown[i]]

\* os.walk scans the next directory and yields it; its subdirectories are
\* walked next, in enumeration order, before what was already waiting
WalkYield ==
    /\ entry = "main"
    /\ pc = "walk"
    /\ stack # <<>>
    /\ LET top == Head(stack)
           kids == Kids(top.node)
       IN /\ fs[top.node].readable
          /\ out' = out \o TreeBlock(top.path, fs[top.node].files)
          /\ stack' = [i \in 1..Len(kids) |->
                          [path |-> Join(top.path, fs[kids[i]].name), node |-> kids[i]]]
                      \o Tail(stack)
          /\ visited' = Append(visited, top.node)
    /\ UNCHANGED <<entry, pc, fs, skipped, spawned, cmd, description, result,
                   raised, exitCode>>

\* WalkScanError with the error of the scan raised to the loop
WalkScanError_Raises ==
    /\ entry = "main"
    /\ pc = "walk"
    /\ stack # <<>>
    /\ ~fs[Head(stack).node].readable
    /\ skipped' = Append(skipped, Head(stack).node)
    /\ raised' = TRUE
    /\ pc' = "return"
    /\ UNCHANGED <<entry, fs, out, stack, visited, spawned, cmd, description, result,
                   exitCode>>

\* os.walk with onerror=None: a directory whose scan fails is passed over
WalkScanError ==
    /\ entry = "main"
    /\ pc = "walk"
    /\ stack # <<>>
    /\ ~fs[Head(stack).node].readable
    /\ stack' = Tail(stack)
    /\ skipped' = Append(skipped, Head(stack).node)
    /\ UNCHANGED <<entry, pc, fs, out, visited, spawned, cmd, description, result,
                   raised, exitCode>>

\* the walk is exhausted: line 64
WalkEnd ==
    /\ entry = "main"
    /\ pc = "walk"
    /\ stack = <<>>
    /\ out' = Append(out, <<>>)
    /\ pc' = "commands"
    /\ UNCHANGED <<entry, fs, stack, visited, skipped, spawned, cmd, description,
                   result, raised, exitCode>>

(***************************************************************************)
(* main: the build and test commands (lines 66-83).  The commands are      *)
(* printed, one block each; none is run.                                   *)
(***************************************************************************)
commands ==
    << <<"cargo check", "Validate Rust code compilation">>,
       <<"cargo build --release", "Build optimized binary">>,
       <<"cargo run -- --help", "Show CLI help">>,
       <<"cd Counter && forge build", "Compile smart contracts">>,
       <<"cd Counter && forge test", "Run smart contract tests">>,
       <<"cd Counter && anvil", "Start local blockchain (background)">>,
       <<"cd Counter && forge script script/DecentralizedPolls.s.sol", "Deploy contracts">> >>

\* lines 81-83: the block printed for one (cmd, desc)
CommandBlock(c) == << <<"[desc] ", c[2]>>, <<"[cmd] ", c[1]>>, <<>> >>

CommandLines ==
    << <<"BUILD & TEST COMMANDS">>, Repeat("-", 25) >>
    \o Flatten([i \in 1..Len(commands) |-> CommandBlock(commands[i])])

\* PrintCommands with each command handed to run_command
PrintCommands_Runs ==
    /\ entry = "main"
    /\ pc = "commands"
    /\ out' = out \o CommandLines
    /\ spawned' = spawned + Len(commands)
    /\ pc' = "features"
    /\ UNCHANGED <<entry, fs, stack, visited, skipped, cmd, description,
                   result, raised, exitCode>>

PrintCommands ==
    /\ entry = "main"
    /\ pc = "commands"
    /\ out' = out \o CommandLines
    /\ pc' = "features"
    /\ UNCHANGED <<entry, fs, stack, visited, skipped, spawned, cmd, description,
                   result, raised, exitCode>>

(***************************************************************************)
(* main: the features (lines 85-101)                                       *)
(***************************************************************************)
features ==
    << "Colored CLI output with progress indicators",
       "Data export in JSON, CSV, and Table formats",
       "Advanced poll analytics with visual bars",
       "Comprehensive error handling",
       "Time-based poll management",
       "User activity tracking",
       "Multi-format result visualization",
       "Professional CLI experience" >>

FeatureLines ==
    << <<"ENHANCED FEATURES ADDED">>, Repeat("-", 28) >>
    \o [i \in 1..Len(features) |-> <<"  ", features[i]>>]
    \o << <<>> >>

\* PrintFeatures over an unordered collection: the order of the items varies
PrintFeatures_Unordered ==
    /\ entry = "main"
    /\ pc = "features"
    /\ \E k \in 0..1 :
          out' = out \o << <<"ENHANCED FEATURES ADDED">>, Repeat("-", 28) >>
                 \o [i \in 1..Len(features) |->
                        <<"  ", features[((i - 1 + k) % Len(features)) + 1]>>]
                 \o << <<>> >>
    /\ pc' = "examples"
    /\ UNCHANGED <<entry, fs, stack, visited, skipped, spawned, cmd, description,
                   result, raised, exitCode>>

PrintFeatures ==
    /\ entry = "main"
    /\ pc = "features"
    /\ out' = out \o FeatureLines
    /\ pc' = "examples"
    /\ UNCHANGED <<entry, fs, stack, visited, skipped, spawned, cmd, description,
                   result, raised, exitCode>>

(***************************************************************************)
(* main: the example invocations (lines 103-122)                           *)
(***************************************************************************)
example_commands ==
    << "cargo run -- create -q \"What's your favorite blockchain?\" -o \"Ethereum,Bitcoin,Solana\" -d 7",
       "cargo run -- list",
       "cargo run -- vote -p 0 -o 1",
       "cargo run -- view -p 0",
       "cargo run -- results -p 0",
       "cargo run -- analytics -p 0",
       "cargo run -- export -p 0 -f json -o poll_data.json",
       "cargo run -- export -p 0 -f csv",
       "cargo run -- my-polls",
       "cargo run -- my-votes" >>

\* f"{i:2d}": i in decimal, right-aligned in two columns
Fmt2d(i) == IF i < 10 THEN <<" ", ToString(i)>> ELSE <<ToString(i)>>

ExampleLines ==
    << <<"EXAMPLE USAGE">>, Repeat("-", 15) >>
    \o [i \in 1..Len(example_commands) |-> Fmt2d(i) \o <<". ", example_commands[i]>>]
    \o << <<>> >>

PrintExamples ==
    /\ entry = "main"
    /\ pc = "examples"
    /\ out' = out \o ExampleLines
    /\ pc' = "workflow"
    /\ UNCHANGED <<entry, fs, stack, visited, skipped, spawned, cmd, description,
                   result, raised, exitCode>>

(***************************************************************************)
(* main: the workflow (lines 124-138)                                      *)
(***************************************************************************)
workflow ==
    << "1. Start local blockchain: cd Counter && anvil",
       "2. Deploy contracts: cd Counter && forge script script/DecentralizedPolls.s.sol --rpc-url http://localhost:8545 --private-key 0xac0974bec39a17e36ba4a6b4d238ff944bacb478cbed5efcae784d7bf4f2ff80 --broadcast",
       "3. Set environment variables:",
       "   export CONTRACT_ADDRESS=<deployed_address>",
       "   export RPC_URL=http://localhost:8545",
       "4. Use the enhanced CLI with all new features!" >>

WorkflowLines ==
    << <<"DEVELOPMENT WORKFLOW">>, Repeat("-", 23) >>
    \o [i \in 1..Len(workflow) |-> <<"  ", workflow[i]>>]
    \o << <<>> >>

PrintWorkflow ==
    /\ entry = "main"
    /\ pc = "workflow"
    /\ out' = out \o WorkflowLines
    /\ pc' = "phases"
    /\ UNCHANGED <<entry, fs, stack, visited, skipped, spawned, cmd, description,
                   result, raised, exitCode>>

(***************************************************************************)
(* main: the next phases and the closing lines (lines 140-161)             *)
(***************************************************************************)
next_phases ==
    << "Web Frontend (React/Next.js)",
       "Multi-chain Support (Polygon, Arbitrum)",
       "Security Enhancements & Anti-spam",
       "Weighted & Stake-based Voting",
       "REST API for External Integrations",
       "Mobile App Support",
       "Advanced Data Visualizations",
       "Reputation & Governance System" >>

PhaseLines ==
    << <<"NEXT DEVELOPMENT PHASES">>, Repeat("-", 27) >>
    \o [i \in 1..Len(next_phases) |-> <<"  ", next_phases[i]>>]
    \o << <<>>,
          Repeat("=", BannerWidth),
          <<"Your Rust + Foundry polling system is ready for development!">>,
          <<"Run any of the commands above to get started.">>,
          Repeat("=", BannerWidth) >>

PrintPhases ==
    /\ entry = "main"
    /\ pc = "phases"
    /\ out' = out \o PhaseLines
    /\ pc' = "return"
    /\ UNCHANGED <<entry, fs, stack, visited, skipped, spawned, cmd, description,
                   result, raised, exitCode>>

(***************************************************************************)
(* The script's last statement (lines 163-164): main() has returned, or an *)
(* exception has left it, and the interpreter exits.                       *)
(***************************************************************************)
Exit ==
    /\ entry = "main"
    /\ pc = "return"
    /\ exitCode' = IF raised THEN 1 ELSE 0
    /\ pc' = "exited"
    /\ UNCHANGED <<entry, fs, out, stack, visited, skipped, spawned, cmd,
                   description, result, raised>>

(***************************************************************************)
(* run_command(cmd, description) (lines 27-41)                             *)
(***************************************************************************)
\* lines 28-30
RunHeader ==
    /\ entry = "run_command"
    /\ pc = "start"
    /\ out' = out \o << <<"[desc] ", description>>,
                        <<"[cmd] Command: ", cmd>>,
                        Repeat("-", RunRuleWidth) >>
    /\ pc' = "try"
    /\ UNCHANGED <<entry, fs, stack, visited, skipped, spawned, cmd, description,
                   result, raised, exitCode>>

\* what the child may write on a stream, and how it may end
Streams == {"", "ok\n", "boom"}
ReturnCodes == {0, 1, 127}
Errors == {"[Errno 2] No such file or directory: '/bin/sh'", "embedded null byte"}

\* line 33: subprocess.run(cmd, shell=True, capture_output=True, text=True)
\* completes with the captured streams and a return code, whatever the code is
RunCompleted ==
    /\ entry = "run_command"
    /\ pc = "try"
    /\ spawned' = spawned + 1
    /\ \E so \in Streams, se \in Streams, rc \in ReturnCodes :
          result' = [kind |-> "completed", stdout |-> so, stderr |-> se,
                     returncode |-> rc]
    /\ pc' = "completed"
    /\ UNCHANGED <<entry, fs, out, stack, visited, skipped, cmd, description,
                   raised, exitCode>>

\* line 33: subprocess.run raises
RunFailed ==
    /\ entry = "run_command"
    /\ pc = "try"
    /\ spawned' = spawned + 1
    /\ \E e \in Errors : result' = [kind |-> "exception", error |-> e]
    /\ pc' = "except"
    /\ UNCHANGED <<entry, fs, out, stack, visited, skipped, cmd, description,
                   raised, exitCode>>

\* RunPrintStreams showing the error stream only when the command failed
RunPrintStreams_OnFailure ==
    /\ entry = "run_command"
    /\ pc = "completed"
    /\ out' = out
              \o (IF result.stdout # "" THEN << <<result.stdout>> >> ELSE <<>>)
              \o (IF result.stderr # "" /\ result.returncode # 0
                  THEN << <<"STDERR:", " ", result.stderr>> >> ELSE <<>>)
              \o << <<>> >>
    /\ pc' = "returned"
    /\ UNCHANGED <<entry, fs, stack, visited, skipped, spawned, cmd, description,
                   result, raised, exitCode>>

\* lines 34-38
RunPrintStreams ==
    /\ entry = "run_command"
    /\ pc = "completed"
    /\ out' = out
              \o (IF result.stdout # "" THEN << <<result.stdout>> >> ELSE <<>>)
              \o (IF result.stderr # "" THEN << <<"STDERR:", " ", result.stderr>> >> ELSE <<>>)
              \o << <<>> >>
    /\ pc' = "returned"
    /\ UNCHANGED <<entry, fs, stack, visited, skipped, spawned, cmd, description,
                   result, raised, exitCode>>

\* RunExcept raising the exception again
RunExcept_Reraise ==
    /\ entry = "run_command"
    /\ pc = "except"
    /\ raised' = TRUE
    /\ pc' = "returned"
    /\ UNCHANGED <<entry, fs, out, stack, visited, skipped, spawned, cmd, description,
                   result, exitCode>>

\* lines 39-41: except Exception as e
RunExcept ==
    /\ entry = "run_command"
    /\ pc = "except"
    /\ out' = out \o << <<"Error running command: ", result.error>>, <<>> >>
    /\ pc' = "returned"
    /\ UNCHANGED <<entry, fs, stack, visited, skipped, spawned, cmd, description,
                   result, raised, exitCode>>

(***************************************************************************)
(* The program                                                             *)
(***************************************************************************)
Commands == {"echo ok", "exit 3"}
Descriptions == {"Say ok", "Fail"}

Init ==
    /\ entry \in {"main", "run_command"}
    /\ pc = "start"
    /\ out = <<>>
    /\ stack = <<>>
    /\ visited = <<>>
    /\ skipped = <<>>
    /\ spawned = 0
    /\ result = None
    /\ raised = FALSE
    /\ exitCode = NoExit
    /\ IF entry = "main"
       THEN IsTree /\ cmd = "" /\ description = ""
       ELSE fs = EmptyFS /\ cmd \in Commands /\ description \in Descriptions

Next ==
    \/ PrintBanner
    \/ MarkerMissing
    \/ AnalysisHeader
    \/ WalkYield
    \/ WalkScanError
    \/ WalkEnd
    \/ PrintCommands
    \/ PrintFeatures
    \/ PrintExamples
    \/ PrintWorkflow
    \/ PrintPhases
    \/ Exit
    \/ RunHeader
    \/ RunCompleted
    \/ RunFailed
    \/ RunPrintStreams
    \/ RunExcept

Spec == Init /\ [][Next]_vars

(***************************************************************************)
(* What the claims are stated with                                         *)
(***************************************************************************)
Range(q) == {q[i] : i \in 1..Len(q)}

InMain == entry = "main"
InRun == entry = "run_command"

\* the lines of the directory listing printed so far (while pc = "walk")
TreeStart == Len(BannerLines) + Len(AnalysisLines) + 1
TreeLines == SubSeq(out, TreeStart, Len(out))

\* the header of a directory ends in "/", which no file name contains
IsHeaderLine(l) == l # <<>> /\ l[Len(l)] = "/"

RECURSIVE StripIndent(_)
StripIndent(l) == IF l # <<>> /\ Head(l) = " " THEN StripIndent(Tail(l)) ELSE l

\* the extension of a file name: from its last dot on, nothing when it has none
Extension(name) ==
    LET dots == {i \in 1..Len(name) : name[i] = "."}
    IN IF dots = {} THEN <<>>
       ELSE SubSeq(name, CHOOSE i \in dots : \A j \in dots : j <= i, Len(name))

AllowList == {DotRs, DotSol, DotToml, DotJson}

IsHidden(name) == name # <<>> /\ name[1] = "."

Qualifies(name) == ~IsHidden(name) /\ Extension(name) \in AllowList

\* the number of directories between the working directory and d
RECURSIVE Depth(_)
Depth(d) == IF d = 0 THEN 0 ELSE 1 + Depth(fs[d].parent)

\* the directories the walk comes to: those below readable directories only
RECURSIVE Reached(_)
Reached(d) == d = 0 \/ (fs[fs[d].parent].readable /\ Reached(fs[d].parent))

StaticLines == CommandLines \o FeatureLines \o ExampleLines \o WorkflowLines \o PhaseLines

WalkOver == InMain /\ Exists(CargoToml) /\ (pc \notin {"start", "check"}) /\ stack = <<>>

(***************************************************************************)
(* C1.  As claimed: when Cargo.toml is absent the whole output of the run  *)
(* is the one error line and no directory is scanned.                      *)
(***************************************************************************)
C1_OnlyErrorLine ==
    (InMain /\ pc = "exited" /\ ~Exists(CargoToml))
        => (out = <<MissingLine>> /\ visited = <<>> /\ skipped = <<>>)

(***************************************************************************)
(* C1, amended.  When Cargo.toml is absent the whole output of the run is  *)
(* the four lines of the banner followed by the one error line; nothing    *)
(* follows it and no directory is scanned.                                 *)
(***************************************************************************)
C1_BannerThenErrorLine ==
    (InMain /\ pc \in {"return", "exited"} /\ ~Exists(CargoToml))
        => (out = BannerLines \o <<MissingLine>> /\ visited = <<>> /\ skipped = <<>>)

C1_Witness ==
    /\ InMain /\ pc = "exited" /\ ~Exists(CargoToml)
    /\ Cardinality(Nodes) > 1
    /\ out[Len(out)] = MissingLine

(***************************************************************************)
(* C2.  In the directory listing no directory has more than 3 file lines,  *)
(* and no file line names a hidden file or a file whose extension is not   *)
(* .rs, .sol, .toml or .json.                                              *)
(***************************************************************************)
C2_AtMostThreeAllowed ==
    (InMain /\ pc = "walk") =>
        LET t == TreeLines
        IN \A i \in 1..Len(t) :
              ~IsHeaderLine(t[i]) =>
                  /\ ~IsHidden(StripIndent(t[i]))
                  /\ Extension(StripIndent(t[i])) \in AllowList
                  /\ ~(i > ShowFirst /\ \A j \in (i - ShowFirst)..i : ~IsHeaderLine(t[j]))

C2_Witness ==
    /\ InMain /\ pc = "walk" /\ Len(TreeLines) > ShowFirst
    /\ \A j \in (Len(TreeLines) - ShowFirst + 1)..Len(TreeLines) : ~IsHeaderLine(TreeLines[j])
    /\ visited # <<>>
    /\ LET files == fs[visited[Len(visited)]].files
       IN Len(files) > ShowFirst /\ \E i \in 1..Len(files) : ~Qualifies(files[i])

(***************************************************************************)
(* C3.  As claimed: for every directory visited, the listing shows the     *)
(* first min(3, k) of its k qualifying files, in enumeration order,        *)
(* whatever other entries come before or between them.                     *)
(***************************************************************************)
FirstQualifying(files) ==
    LET q == SelectSeq(files, Qualifies)
    IN SubSeq(q, 1, IF Len(q) < ShowFirst THEN Len(q) ELSE ShowFirst)

ClaimedBlock(d) ==
    LET q == FirstQualifying(fs[d].files)
    IN << Repeat(" ", IndentUnit * Depth(d)) \o fs[d].name \o <<"/">> >>
       \o [i \in 1..Len(q) |-> Repeat(" ", IndentUnit * (Depth(d) + 1)) \o q[i]]

C3_FirstThreeQualifying ==
    (InMain /\ pc = "walk") =>
        TreeLines = Flatten([i \in 1..Len(visited) |-> ClaimedBlock(visited[i])])

(***************************************************************************)
(* C4.  run_command never raises to its caller: whatever subprocess.run    *)
(* comes to, the helper goes on until it returns, and an exception of      *)
(* subprocess.run ends as the 'Error running command' line and a blank     *)
(* line after the three lines of the heading.                              *)
(***************************************************************************)
C4_NeverRaises ==
    InRun =>
        /\ ~raised
        /\ pc # "returned" => ENABLED Next
        /\ (pc = "returned" /\ result.kind = "exception") =>
              /\ Len(out) = 5
              /\ out[4] = <<"Error running command: ", result.error>>
              /\ out[5] = <<>>

C4_Witness == InRun /\ pc = "returned" /\ result.kind = "exception" /\ spawned = 1

(***************************************************************************)
(* C5.  For a command that completes, run_command prints the description,  *)
(* the command, the rule, stdout iff it is not empty, stderr iff it is not *)
(* empty, and one blank line, whatever the return code.                    *)
(***************************************************************************)
C5_BlockOrder ==
    (InRun /\ pc = "returned" /\ result.kind = "completed") =>
        LET so == result.stdout
            se == result.stderr
            n == 3 + (IF so # "" THEN 1 ELSE 0) + (IF se # "" THEN 1 ELSE 0)
        IN /\ Len(out) = n + 1
           /\ out[1] = <<"[desc] ", description>>
           /\ out[2] = <<"[cmd] Command: ", cmd>>
           /\ out[3] = Repeat("-", RunRuleWidth)
           /\ so # "" => out[4] = <<so>>
           /\ se # "" => out[n] = <<"STDERR:", " ", se>>
           /\ out[n + 1] = <<>>

C5_Witness ==
    /\ InRun /\ pc = "returned" /\ result.kind = "completed"
    /\ result.stdout # "" /\ result.stderr # "" /\ result.returncode = 0
    /\ Len(out) = 6

(***************************************************************************)
(* C6.  A run of main() starts no subprocess: subprocess.run is never      *)
(* called, the commands and examples are only printed.                     *)
(***************************************************************************)
C6_NoSubprocess == InMain => (spawned = 0 /\ result = None)

C6_Witness ==
    /\ InMain /\ pc = "exited" /\ spawned = 0
    /\ \E i \in 1..Len(out) : out[i] = <<"[cmd] ", commands[1][1]>>
    /\ \E i \in 1..Len(out) : out[i] = <<" ", "1", ". ", example_commands[1]>>

(***************************************************************************)
(* C7.  When Cargo.toml is absent main() returns and the process exits     *)
(* with status 0, the status of a run that printed everything.             *)
(***************************************************************************)
C7_ExitZero ==
    (InMain /\ pc = "exited") => (exitCode = 0 /\ ~raised)

C7_Witness ==
    /\ InMain /\ pc = "exited" /\ ~Exists(CargoToml) /\ exitCode = 0
    /\ out[Len(out)] = MissingLine

(***************************************************************************)
(* C8.  As claimed: a failure while the tree is traversed ends the run     *)
(* before the static sections are printed, with a non-zero status.         *)
(***************************************************************************)
C8_FailureAborts ==
    (InMain /\ skipped # <<>> /\ pc = "exited")
        => (exitCode # 0 /\ out[Len(out)] # PhaseLines[Len(PhaseLines)])

(***************************************************************************)
(* C8, amended.  A directory whose scan fails is passed over: it gets no   *)
(* header and no file lines, nothing is raised, the walk goes on to the    *)
(* directories that remain, the static sections are printed and the exit   *)
(* status is 0.                                                            *)
(***************************************************************************)
C8_FailurePassedOver ==
    (InMain /\ skipped # <<>>) =>
        /\ ~raised
        /\ Range(skipped) \cap Range(visited) = {}
        /\ WalkOver =>
              /\ Range(visited) = {d \in Nodes : Reached(d) /\ fs[d].readable}
              /\ Range(skipped) = {d \in Nodes : Reached(d) /\ ~fs[d].readable}
        /\ pc = "exited" =>
              /\ exitCode = 0
              /\ Len(out) > Len(StaticLines)
              /\ SubSeq(out, Len(out) - Len(StaticLines) + 1, Len(out)) = StaticLines

C8_Witness ==
    /\ InMain /\ pc = "exited" /\ skipped # <<>>
    /\ \E i \in 1..Len(visited) : visited[i] > skipped[1]

(***************************************************************************)
(* C9.  The output of main() is a function of the file system alone: it is *)
(* the banner and the error line, or the banner, the heading, the listing  *)
(* of the tree in walk order and the static sections, always the same      *)
(* lines in the same order.                                                *)
(***************************************************************************)
RECURSIVE ListingOf(_, _)
ListingOf(d, path) ==
    IF ~fs[d].readable THEN <<>>
    ELSE LET kids == Kids(d)
         IN TreeBlock(path, fs[d].files)
            \o Flatten([i \in 1..Len(kids) |->
                           ListingOf(kids[i], Join(path, fs[kids[i]].name))])

OutputOf ==
    IF Exists(CargoToml)
    THEN BannerLines \o AnalysisLines \o ListingOf(0, <<".">>) \o << <<>> >> \o StaticLines
    ELSE BannerLines \o <<MissingLine>>

C9_OutputIsFunctionOfFS == (InMain /\ pc = "exited") => out = OutputOf

C9_Witness ==
    /\ InMain /\ pc = "exited" /\ Exists(CargoToml)
    /\ Len(visited) > 2
    /\ Len(out) > Len(BannerLines) + Len(AnalysisLines) + Len(visited) + 1 + Len(StaticLines)

(***************************************************************************)
(* C10.  In the listing every directory the walk yields, hidden or not,    *)
(* with or without files to show, has exactly one header line, its name    *)
(* and "/" after 2 x depth spaces; every file line stands after the header *)
(* of its directory and before the next header, after 2 x (depth + 1)      *)
(* spaces.                                                                 *)
(***************************************************************************)
C10_HeadersAndIndents ==
    (InMain /\ pc = "walk") =>
        LET t == TreeLines
            IsHeaderAt(j) == IsHeaderLine(t[j])
            heads == SelectSeq([j \in 1..Len(t) |-> j], IsHeaderAt)
            HeadsBefore(j) == Cardinality({k \in 1..Len(heads) : heads[k] < j})
        IN /\ Len(heads) = Len(visited)
           /\ Cardinality(Range(visited)) = Len(visited)
           /\ \A i \in 1..Len(visited) :
                 t[heads[i]] = Repeat(" ", 2 * Depth(visited[i]))
                               \o fs[visited[i]].name \o <<"/">>
           /\ \A j \in 1..Len(t) :
                 ~IsHeaderAt(j) =>
                     /\ HeadsBefore(j) >= 1
                     /\ LET d == visited[HeadsBefore(j)]
                        IN \E f \in Range(fs[d].files) :
                              t[j] = Repeat(" ", 2 * (Depth(d) + 1)) \o f
           /\ stack = <<>> =>
                 Range(visited) = {d \in Nodes : Reached(d) /\ fs[d].readable}

C10_Witness ==
    /\ InMain /\ pc = "walk" /\ stack = <<>>
    /\ \E i \in 1..Len(visited) :
          /\ Depth(visited[i]) = 2
          /\ IsHidden(fs[visited[i]].name)
          /\ SelectSeq(FirstFiles(fs[visited[i]].files), Shown) # <<>>
    /\ \E i \in 1..Len(visited) : SelectSeq(FirstFiles(fs[visited[i]].files), Shown) = <<>>

====
